---- MODULE Spec2Model ----
(***************************************************************************)
(* Event-dispatch pipeline of the diet-coach LINE bot.                     *)
(*                                                                         *)
(* The model follows the entitlement-gated server (src/unnamed/part_000):  *)
(* POST /register, isActive, and the POST /webhook/line handler whose      *)
(* per-event async callbacks are joined with Promise.all.  The earlier     *)
(* gate-first server (src/unnamed/part_002) is modelled by the same        *)
(* actions under handler = "part_002".                                     *)
(*                                                                         *)
(* Every await of the code is one position (pc) of a task; one action      *)
(* models the return (or the throw) of the awaited call together with the  *)
(* synchronous code that runs up to the next await.                        *)
(*                                                                         *)
(* Time is counted in ticks, TicksPerDay to the day.  The code computes    *)
(* expireAt in milliseconds (days * 86400 * 1000) and the TTL in seconds   *)
(* (days * 86400) or milliseconds (part_002); both are whole multiples of  *)
(* a day, so in ticks both are days * TicksPerDay.                         *)
(*                                                                         *)
(* Specifications:                                                         *)
(*   Spec       part_000, one delivery of every event shape, every         *)
(*              external call may throw, the clock at rest;                *)
(*   SpecClock  part_000 with the clock running (Tick), order codes, chat  *)
(*              texts and images, three POST /register windows, the store  *)
(*              as the one service that may throw;                         *)
(*   SpecFair   Spec with every external call eventually returning or      *)
(*              throwing and the handler eventually resumed;               *)
(*   Spec002    part_002 under the actions of Spec;                        *)
(*   SpecClassify  part_000 with one sender, a family of texts around the  *)
(*              order-code pattern and the meal keywords, no call throwing.*)
(***************************************************************************)
EXTENDS Integers, Sequences, FiniteSets, TLC

\* ---------------------------------------------------------------- bounds
MaxBatch == 2         \* events in the delivery
NumRequests == 1      \* POST /register requests
MaxTicks == 2         \* advances of the clock
MaxDigits == 11       \* longest run of digits in a classified text
TicksPerDay == 1      \* resolution of the clock

\* ------------------------------------------------------ program constants
OrderWindowDays == 30     \* 30 * 86400 * 1000 and { ex: 30 * 86400 }
DefaultDays == 30         \* days = 30
OrderMinDigits == 9       \* /^\d{9,10}$/
OrderMaxDigits == 10
OrderMinDigits002 == 6    \* /^\d{6,10}$/ (part_002)
SuccessStatus == 200      \* res.status(200).end() after Promise.all
BadRequestStatus == 400
ServerErrorStatus == 500

Requests == 1..NumRequests
Principals == {"P", "Q"}

\* ------------------------------------------------------------------ texts
\* A text is a sequence of characters.  "0".."9" are digits, " " is white
\* space, "M" stands for one occurrence of a meal keyword (ごはん, 食事, ...).
DigitChars == {"0", "1", "2", "3", "4", "5", "6", "7", "8", "9"}
SpaceChars == {" "}

RECURSIVE TrimLeft(_)
TrimLeft(s) ==
  IF s # <<>> /\ Head(s) \in SpaceChars THEN TrimLeft(Tail(s)) ELSE s

RECURSIVE TrimRight(_)
TrimRight(s) ==
  IF s # <<>> /\ s[Len(s)] \in SpaceChars
  THEN TrimRight(SubSeq(s, 1, Len(s) - 1)) ELSE s

\* String.prototype.trim
Trim(s) == TrimRight(TrimLeft(s))

AllDigits(s) == \A i \in 1..Len(s) : s[i] \in DigitChars

\* a pattern without the end anchor: /^\d{9,10}/
OrderMatchPrefix(text) ==
  /\ Len(text) >= OrderMinDigits
  /\ AllDigits(SubSeq(text, 1, OrderMinDigits))

\* text.match(/^\d{9,10}$/) on the trimmed text
OrderMatch(text) ==
  /\ AllDigits(text)
  /\ Len(text) >= OrderMinDigits
  /\ Len(text) <= OrderMaxDigits

\* /^\d{6,10}$/.test(text) (part_002)
OrderMatch002(text) ==
  /\ AllDigits(text)
  /\ Len(text) >= OrderMinDigits002
  /\ Len(text) <= OrderMaxDigits

\* /ごはん|食べた|...|ディナー/i.test(userText): a substring test
IsMeal(text) == \E i \in 1..Len(text) : text[i] = "M"

Digits(n) == [i \in 1..n |-> "7"]

OrderText == Digits(9)
MealText == <<"M">>
ChatText == <<"h", "i">>

\* --------------------------------------------------------------- inputs
Day == TicksPerDay
NoText == <<>>

\* event.type, event.message.type, event.message.text, event.source.userId
EventShapes ==
  {[type |-> "follow", mtype |-> "none", text |-> NoText],
   [type |-> "message", mtype |-> "image", text |-> NoText],
   [type |-> "message", mtype |-> "sticker", text |-> NoText],
   [type |-> "message", mtype |-> "text", text |-> OrderText],
   [type |-> "message", mtype |-> "text", text |-> MealText],
   [type |-> "message", mtype |-> "text", text |-> ChatText]}

InboundEvents ==
  {[type |-> sh.type, mtype |-> sh.mtype, text |-> sh.text, userId |-> u] :
     sh \in EventShapes, u \in Principals}

\* req.body?.events || []: up to n events, each out of evs
Batches(n, evs) == UNION {[1..k -> evs] : k \in 0..n}

Deliveries == Batches(MaxBatch, InboundEvents)

\* deliveries of order codes, chat texts and images
ClockEvents ==
  {ev \in InboundEvents :
     \/ ev.mtype = "text" /\ ev.text \in {OrderText, ChatText}
     \/ ev.mtype = "image"}

ClockDeliveries == Batches(MaxBatch, ClockEvents)

\* req.body of POST /register; days = 0 stands for an absent days field,
\* userId = "" and orderNumber = <<>> for a missing (falsy) field.
RegisterBodies ==
  {[userId |-> "P", orderNumber |-> <<"A">>, days |-> 0],
   [userId |-> "P", orderNumber |-> <<"B">>, days |-> 10],
   [userId |-> "P", orderNumber |-> <<"A">>, days |-> 60]}

\* texts for the classifier: a run of 0..MaxDigits digits, with or without
\* white space around it, a meal keyword or another character after or
\* inside it
Pads == {<<>>, <<" ">>}
Tails == {<<>>, <<" ">>, <<"M">>, <<"h">>, <<" ", "M">>, <<"h", " ">>}

ClassifyTexts ==
  {pad \o Digits(n) \o tail : pad \in Pads, n \in 0..MaxDigits, tail \in Tails}
    \cup {Digits(k) \o mid \o Digits(OrderMinDigits - k) :
            k \in 1..(OrderMinDigits - 1), mid \in {<<" ">>, <<"M">>}}

\* one principal's text events with these texts, and an image event
ClassifyEvents ==
  {[type |-> "message", mtype |-> "text", text |-> t, userId |-> "P"] :
     t \in ClassifyTexts}
    \cup {[type |-> "message", mtype |-> "image", text |-> NoText, userId |-> "P"]}

ClassifyDeliveries == Batches(1, ClassifyEvents)

ClassifyBodies == {[userId |-> "P", orderNumber |-> <<"A">>, days |-> 0]}

PipelineBodies ==
  {[userId |-> "P", orderNumber |-> <<"A">>, days |-> 0],
   [userId |-> "", orderNumber |-> <<"A">>, days |-> 0],
   [userId |-> "P", orderNumber |-> <<>>, days |-> 10]}

NoBody == [userId |-> "", orderNumber |-> <<>>, days |-> 0]

\* the completions a generation call can return: no choice at all, or a
\* first choice with this content
NoChoice == <<"<none>">>
NoResult == <<"<pending>">>     \* const result, before the call has returned
GenResults == {NoChoice, <<>>, <<" ">>, <<"o", "k", " ">>}

\* ---------------------------------------------------------------- state
VARIABLES
  handler,    \* which server is deployed: "part_000" or "part_002"
  faults,     \* the external services that may throw on a call
  now,        \* Date.now(), in ticks
  ticks,      \* advances of the clock so far
  store,      \* the Redis store: a set of entries [key, value, ttlAt]
  lastReg,    \* per principal, the value written by the latest completed
              \* registration (history; NoData before any)
  events,     \* req.body.events of the delivery (<<>> before it arrives)
  hpc,        \* webhook handler: "idle", "await" (in Promise.all), "acked"
  acks,       \* the statuses the handler has ended the response with
  pc,         \* per event task: the await it is suspended in, or its end
  texp,       \* per event task: its local expireAt
  gate,       \* per event task: what its entitlement read returned, when
  genCalls,   \* per event task: generation calls made (ai.chat.completions.create)
  genOut,     \* per event task: the result its generation call returned
  replyLog,   \* per event task: the messages replyMessage was invoked with
  sent,       \* per event task: the messages replyMessage delivered
  threw,      \* per event task: the external calls that threw
  regs        \* per POST /register request: its position, body and response

Events == DOMAIN events

vars == <<handler, faults, now, ticks, store, lastReg, events, hpc, acks, pc, texp,
          gate, genCalls, genOut, replyLog, sent, threw, regs>>

\* ---------------------------------------------------------------- store
NoData == [none |-> TRUE]

\* one key for every principal
KeyShared(userId) == <<"sub", "all">>

\* `sub:${userId}`
KeyOf(userId) == <<"sub", userId>>

\* the entries the store still serves at time t (TTL not yet reached)
Live(st, t) == {en \in st : t < en.ttlAt}

\* redis.get(key) at time t: the value, or null
RedisGet(st, key, t) ==
  IF \E en \in Live(st, t) : en.key = key
  THEN (CHOOSE en \in Live(st, t) : en.key = key).value
  ELSE NoData

\* a set that keeps the later of the old and the new expiry
RedisSetKeepLater(st, key, value, ttl, t) ==
  LET old == {en \in st : en.key = key}
      keep == IF old = {} THEN value.expireAt
              ELSE LET o == (CHOOSE en \in old : TRUE).value.expireAt
                   IN IF o > value.expireAt THEN o ELSE value.expireAt
  IN {en \in st : en.key # key}
       \cup {[key |-> key, value |-> [value EXCEPT !.expireAt = keep],
               ttlAt |-> t + ttl]}

\* a set that leaves a key alone once it is there (SET ... NX)
RedisSetIfAbsent(st, key, value, ttl, t) ==
  IF \E en \in st : en.key = key
  THEN st
  ELSE st \cup {[key |-> key, value |-> value, ttlAt |-> t + ttl]}

\* redis.set(key, value, { ex: ttl }) applied at time t: replaces the key
RedisSet(st, key, value, ttl, t) ==
  {en \in st : en.key # key}
    \cup {[key |-> key, value |-> value, ttlAt |-> t + ttl]}

\* Date.now() + days * 86400 * 1000
ExpireAtOf(t, days) == t + days * Day

\* a TTL an hour-for-a-day slip would give
TtlOfHours(days) == (days * Day) \div 24

\* { ex: days * 86400 }: the TTL handed to the store
TtlOf(days) == days * Day

\* a gate that lets every principal through
IsActiveAlways(data, t) == TRUE

\* an expiry test that still serves at the expiry instant
IsActiveAtExpiry(data, t) ==
  IF data = NoData THEN FALSE ELSE data.expireAt >= t

\* isActive(userId), after redis.get returned data, evaluated at time t
IsActive(data, t) ==
  IF data = NoData THEN FALSE ELSE data.expireAt > t

\* -------------------------------------------------------------- replies
\* A reply message: which text it is, and the parts filled in.
Msg(kind, body, order, expire) ==
  [kind |-> kind, body |-> body, order |-> order, expire |-> expire]

Fixed(kind) == Msg(kind, <<>>, <<>>, 0)

\* new Date(expireAt).toLocaleDateString("ja-JP"): the day expireAt falls on
DateOf(expireAt) == expireAt \div Day

GateText == Fixed("gate")                \* ご利用期限が切れています ...
VisionFallback == Fixed("visionFallback") \* 画像を解析できませんでした ...
VisionError == Fixed("visionError")       \* 画像の取得/解析でエラーが起きました ...
MealFallback == Fixed("mealFallback")     \* 食事内容をうまく解析できませんでした ...
ChatFallback == Fixed("chatFallback")     \* うまく生成できませんでした ...

\* a confirmation that leaves the expiry date out
ConfirmTextNoDate(h, orderNumber, expireAt) ==
  Msg("confirm", <<>>, orderNumber, 0)

\* 注文番号 ${orderNumber} を登録しました。ご利用期限: ${date}
\* (part_002: 注文番号 ${text} を登録しました。30日間利用可能です)
ConfirmText(h, orderNumber, expireAt) ==
  IF h = "part_000"
  THEN Msg("confirm", <<>>, orderNumber, DateOf(expireAt))
  ELSE Msg("confirm", <<>>, orderNumber, 0)

\* a fallback test on the completion as it came: content || fallback
ReplyOfUntrimmed(result, fallback) ==
  IF result = NoChoice \/ result = <<>>
  THEN fallback
  ELSE Msg("generated", result, <<>>, 0)

\* result?.choices?.[0]?.message?.content?.trim() || fallback
ReplyOf(result, fallback) ==
  IF result = NoChoice \/ Trim(result) = <<>>
  THEN fallback
  ELSE Msg("generated", Trim(result), <<>>, 0)

FallbackOf(genPc) ==
  CASE genPc = "genVision" -> VisionFallback
    [] genPc = "genMeal" -> MealFallback
    [] OTHER -> ChatFallback

\* --------------------------------------------------------- task positions
Settled == {"done", "failed"}
GenPcs == {"genVision", "genMeal", "genChat"}

\* the replyMessage call that follows each generation call (lines 156, 195
\* and 213)
ReplyPcAfter(genPc) ==
  CASE genPc = "genVision" -> "replyVision"
    [] genPc = "genMeal" -> "replyMeal"
    [] OTHER -> "replyChat"

ReplyPcs == {"replyOrder", "replyGate", "replyVision", "replyMeal", "replyChat",
             "replyCatch"}

\* a callback without the event.type filter
StartPcUnfiltered(h, ev) ==
  IF h = "part_000" /\ ev.mtype = "text" /\ OrderMatch(Trim(ev.text))
  THEN "set" ELSE "get"

\* The synchronous head of the per-event callback, up to its first await.
\* part_000: type filter, then the order-code test, then isActive(userId).
\* part_002: type filter, then checkSubscription(userId).
StartPc(h, ev) ==
  CASE ev.type # "message" -> "done"
    [] h = "part_000" /\ ev.mtype = "text" /\ OrderMatch(Trim(ev.text)) -> "set"
    [] OTHER -> "get"

\* a gate that renews the record of every served text
AfterGatePcRenewing(h, ev) ==
  CASE ev.mtype = "image" -> "fetch"
    [] ev.mtype = "text" -> "set"
    [] OTHER -> "done"

\* Where the callback goes once the gate has let the event through.
\* part_000: image, then text (meal report or chat); anything else falls
\* off the end of the callback.  part_002: the text branch tests for an
\* order number first.
AfterGatePc(h, ev) ==
  CASE ev.mtype = "image" -> "fetch"
    [] ev.mtype = "text" /\ h = "part_002" /\ OrderMatch002(Trim(ev.text)) -> "set"
    [] ev.mtype = "text" /\ IsMeal(Trim(ev.text)) -> "genMeal"
    [] ev.mtype = "text" -> "genChat"
    [] OTHER -> "done"

\* Whether a throw at this position lands in the image branch's catch block
\* (part_000 wraps fetch, generation and the first reply in try/catch;
\* part_002 has no try/catch there).
InVisionTry(h, p) == h = "part_000" /\ p \in {"fetch", "genVision", "replyVision"}

\* a join that abandons the other tasks once one of them has thrown
CanResumeUnlessRejected(e, p) ==
  e \in Events /\ pc[e] = p /\ \A f \in Events : pc[f] # "failed"

\* a response that cancels the tasks still pending
CanResumeUntilAnswered(e, p) == e \in Events /\ pc[e] = p /\ hpc # "acked"

\* A per-event task may take its next step whenever the call it awaits
\* returns: neither Promise.all nor the handler's response cancels it.
CanResume(e, p) == e \in Events /\ pc[e] = p

\* a catch block that reports the failure to the platform
CatchStatusError == ServerErrorStatus

\* res.status(200).end() in the catch block
CatchStatus == 200

\* ----------------------------------------------------------------- Init
Services == {"store", "fetch", "gen", "reply"}

\* What a call to service c can do: return (TRUE) or throw (FALSE).
Outcomes(c) == IF c \in faults THEN BOOLEAN ELSE {TRUE}

NoGate == [read |-> FALSE, data |-> NoData, at |-> 0]
IdleReg == [pc |-> "idle", body |-> NoBody, expireAt |-> 0, status |-> 0,
            answered |-> 0]

InitWith(h, f) ==
  /\ handler = h
  /\ faults = f
  /\ now = 0
  /\ ticks = 0
  /\ store = {}
  /\ lastReg = [u \in Principals |-> NoData]
  /\ events = <<>>
  /\ hpc = "idle"
  /\ acks = <<>>
  /\ pc = <<>>
  /\ texp = <<>>
  /\ gate = <<>>
  /\ genCalls = <<>>
  /\ genOut = <<>>
  /\ replyLog = <<>>
  /\ sent = <<>>
  /\ threw = <<>>
  /\ regs = [r \in Requests |-> IdleReg]

Init == InitWith("part_000", Services)

\* ---------------------------------------------------------------- clock
Jumps == {1, OrderWindowDays * Day - 1}

Tick ==
  /\ ticks < MaxTicks
  /\ \E d \in Jumps : now' = now + d
  /\ ticks' = ticks + 1
  /\ UNCHANGED <<handler, faults, genOut,
                 store, lastReg, events, hpc, acks, pc, texp, gate,
                 genCalls, replyLog, sent, threw, regs>>

\* ------------------------------------------------------- POST /register
\* a test that only asks for the userId
MissingUserOnly(body) == body.userId = ""

\* !userId || !orderNumber
MissingField(body) == body.userId = "" \/ body.orderNumber = <<>>

\* The handler up to its await: the destructuring with days = 30, the
\* 400 answer for a missing field, expireAt from the clock.
RegisterCall(r, body) ==
  /\ regs[r].pc = "idle"
  /\ LET days == IF body.days = 0 THEN DefaultDays ELSE body.days
         missing == MissingField(body)
     IN regs' = [regs EXCEPT ![r] =
          IF missing
          THEN [pc |-> "done", body |-> body, expireAt |-> 0,
                status |-> BadRequestStatus, answered |-> 0]
          ELSE [pc |-> "set", body |-> [body EXCEPT !.days = days],
                expireAt |-> ExpireAtOf(now, days), status |-> 0, answered |-> 0]]
  /\ UNCHANGED <<handler, faults, genOut,
                 now, ticks, store, lastReg, events, hpc, acks, pc,
                 texp, gate, genCalls, replyLog, sent, threw>>

\* redis.set returns (the record is written, 200 with expireAt; part_002
\* answers with a message only) or throws (nothing is written, 500).
RegisterSetReturn(r) ==
  /\ regs[r].pc = "set"
  /\ \E ok \in Outcomes("store") :
       LET b == regs[r].body
           value == [orderNumber |-> b.orderNumber, expireAt |-> regs[r].expireAt]
       IN IF ok
          THEN /\ store' = RedisSet(store, KeyOf(b.userId), value, TtlOf(b.days), now)
               /\ lastReg' = [lastReg EXCEPT ![b.userId] = value]
               /\ regs' = [regs EXCEPT ![r].pc = "done",
                                       ![r].status = SuccessStatus,
                                       ![r].answered =
                                          IF handler = "part_000"
                                          THEN regs[r].expireAt ELSE 0]
          ELSE /\ regs' = [regs EXCEPT ![r].pc = "done",
                                       ![r].status = ServerErrorStatus]
               /\ UNCHANGED <<store, lastReg>>
  /\ UNCHANGED <<handler, faults, genOut,
                 now, ticks, events, hpc, acks, pc, texp, gate,
                 genCalls, replyLog, sent, threw>>

\* --------------------------------------------------- POST /webhook/line
\* events.map(async (event) => ...) runs every callback up to its first
\* await, in one synchronous stretch; then the handler awaits Promise.all.
Dispatch(d) ==
  /\ hpc = "idle"
  /\ events' = d
  /\ hpc' = "await"
  /\ pc' = [e \in DOMAIN d |-> StartPc(handler, d[e])]
  /\ texp' = [e \in DOMAIN d |->
                IF StartPc(handler, d[e]) = "set"
                THEN ExpireAtOf(now, OrderWindowDays) ELSE 0]
  /\ gate' = [e \in DOMAIN d |-> NoGate]
  /\ genCalls' = [e \in DOMAIN d |-> 0]
  /\ replyLog' = [e \in DOMAIN d |-> <<>>]
  /\ sent' = [e \in DOMAIN d |-> <<>>]
  /\ threw' = [e \in DOMAIN d |-> {}]
  /\ genOut' = [e \in DOMAIN d |-> NoResult]
  /\ UNCHANGED <<handler, faults, now, ticks, store, lastReg, acks, regs>>

\* await redis.set(`sub:${userId}`, { orderNumber, expireAt }, { ex: 30 * 86400 })
\* returns, and the confirmation reply is called; or it throws.
StoreSetReturn(e) ==
  /\ CanResume(e, "set")
  /\ \E ok \in Outcomes("store") :
       LET u == events[e].userId
           value == [orderNumber |-> Trim(events[e].text), expireAt |-> texp[e]]
       IN IF ok
          THEN /\ store' = RedisSet(store, KeyOf(u), value, TtlOf(OrderWindowDays), now)
               /\ lastReg' = [lastReg EXCEPT ![u] = value]
               /\ pc' = [pc EXCEPT ![e] = "replyOrder"]
               /\ replyLog' = [replyLog EXCEPT ![e] =
                    Append(@, ConfirmText(handler, value.orderNumber, value.expireAt))]
               /\ UNCHANGED threw
          ELSE /\ pc' = [pc EXCEPT ![e] = "failed"]
               /\ threw' = [threw EXCEPT ![e] = @ \cup {"store"}]
               /\ UNCHANGED <<store, lastReg, replyLog>>
  /\ UNCHANGED <<handler, faults, genOut,
                 now, ticks, events, hpc, acks, texp, gate, genCalls,
                 sent, regs>>

\* await isActive(userId) returns or throws; on false the gate-rejection
\* reply is called, on true the callback goes on to its branch (calling
\* the media fetch or the generation API, or computing expireAt for the
\* order number of part_002).
GateReturn(e) ==
  /\ CanResume(e, "get")
  /\ \E ok \in Outcomes("store") :
       LET ev == events[e]
           data == RedisGet(store, KeyOf(ev.userId), now)
           next == AfterGatePc(handler, ev)
       IN IF ~ok
          THEN /\ pc' = [pc EXCEPT ![e] = "failed"]
               /\ threw' = [threw EXCEPT ![e] = @ \cup {"store"}]
               /\ UNCHANGED <<gate, replyLog, genCalls, texp>>
          ELSE /\ gate' = [gate EXCEPT ![e] = [read |-> TRUE, data |-> data, at |-> now]]
               /\ UNCHANGED threw
               /\ IF ~IsActive(data, now)
                  THEN /\ pc' = [pc EXCEPT ![e] = "replyGate"]
                       /\ replyLog' = [replyLog EXCEPT ![e] = Append(@, GateText)]
                       /\ UNCHANGED <<genCalls, texp>>
                  ELSE /\ pc' = [pc EXCEPT ![e] = next]
                       /\ genCalls' = [genCalls EXCEPT ![e] =
                            IF next \in GenPcs THEN @ + 1 ELSE @]
                       /\ texp' = [texp EXCEPT ![e] =
                            IF next = "set" THEN ExpireAtOf(now, OrderWindowDays) ELSE @]
                       /\ UNCHANGED replyLog
  /\ UNCHANGED <<handler, faults, genOut,
                 now, ticks, store, lastReg, events, hpc, acks, sent,
                 regs>>

\* await fetchLineImageBuffer(event.message.id) returns and the vision
\* generation is called; or it throws (into the catch block of part_000).
FetchReturn(e) ==
  /\ CanResume(e, "fetch")
  /\ \E ok \in Outcomes("fetch") :
       IF ok
       THEN /\ pc' = [pc EXCEPT ![e] = "genVision"]
            /\ genCalls' = [genCalls EXCEPT ![e] = @ + 1]
            /\ UNCHANGED <<threw, replyLog>>
       ELSE /\ threw' = [threw EXCEPT ![e] = @ \cup {"fetch"}]
            /\ UNCHANGED genCalls
            /\ IF InVisionTry(handler, "fetch")
               THEN /\ pc' = [pc EXCEPT ![e] = "replyCatch"]
                    /\ replyLog' = [replyLog EXCEPT ![e] = Append(@, VisionError)]
               ELSE /\ pc' = [pc EXCEPT ![e] = "failed"]
                    /\ UNCHANGED replyLog
  /\ UNCHANGED <<handler, faults, genOut,
                 now, ticks, store, lastReg, events, hpc, acks, texp,
                 gate, sent, regs>>

\* await ai.chat.completions.create(...) returns a result and the reply
\* (its trimmed first completion, or the fallback text) is called; or it
\* throws: into the catch block in the image branch of part_000, out of
\* the callback everywhere else.
GenReturn(e) ==
  /\ \E p \in GenPcs : CanResume(e, p)
  /\ \E ok \in Outcomes("gen"), out \in GenResults :
       IF ok
       THEN /\ pc' = [pc EXCEPT ![e] = ReplyPcAfter(pc[e])]
            /\ replyLog' = [replyLog EXCEPT ![e] =
                 Append(@, ReplyOf(out, FallbackOf(pc[e])))]
            /\ genOut' = [genOut EXCEPT ![e] = out]
            /\ UNCHANGED threw
       ELSE /\ threw' = [threw EXCEPT ![e] = @ \cup {"gen"}]
            /\ UNCHANGED genOut
            /\ IF InVisionTry(handler, pc[e])
               THEN /\ pc' = [pc EXCEPT ![e] = "replyCatch"]
                    /\ replyLog' = [replyLog EXCEPT ![e] = Append(@, VisionError)]
               ELSE /\ pc' = [pc EXCEPT ![e] = "failed"]
                    /\ UNCHANGED replyLog
  /\ UNCHANGED <<handler, faults, now, ticks, store, lastReg, events, hpc, acks, texp,
                 gate, genCalls, sent, regs>>

\* await lineClient.replyMessage(event.replyToken, ...) returns (the message
\* is delivered and the callback returns) or throws: the reply in the try
\* block of part_000 throws into the catch block, which calls replyMessage
\* again; every other reply throws out of the callback.
ReplyReturn(e) ==
  /\ \E p \in ReplyPcs : CanResume(e, p)
  /\ \E ok \in Outcomes("reply") :
       IF ok
       THEN /\ sent' = [sent EXCEPT ![e] = Append(@, replyLog[e][Len(replyLog[e])])]
            /\ pc' = [pc EXCEPT ![e] = "done"]
            /\ UNCHANGED <<threw, replyLog>>
       ELSE /\ threw' = [threw EXCEPT ![e] = @ \cup {"reply"}]
            /\ UNCHANGED sent
            /\ IF InVisionTry(handler, pc[e])
               THEN /\ pc' = [pc EXCEPT ![e] = "replyCatch"]
                    /\ replyLog' = [replyLog EXCEPT ![e] = Append(@, VisionError)]
               ELSE /\ pc' = [pc EXCEPT ![e] = "failed"]
                    /\ UNCHANGED replyLog
  /\ UNCHANGED <<handler, faults, genOut,
                 now, ticks, store, lastReg, events, hpc, acks, texp,
                 gate, genCalls, regs>>

\* a handler that answers again for every later settlement
AwaitingOrAnswered == hpc # "idle"

\* The handler is suspended in await Promise.all(...): it resumes once,
\* into the statement after the await or into the catch block.
Awaiting == hpc = "await"

\* Promise.all fulfils once every callback has returned:
\* res.status(200).end().
AckResolved ==
  /\ Awaiting
  /\ \A e \in Events : pc[e] = "done"
  /\ acks' = Append(acks, SuccessStatus)
  /\ hpc' = "acked"
  /\ UNCHANGED <<handler, faults, genOut,
                 now, ticks, store, lastReg, events, pc, texp, gate,
                 genCalls, replyLog, sent, threw, regs>>

\* Promise.all rejects as soon as one callback has thrown, whatever the
\* others are doing: the catch block logs and ends the response.
AckCaught ==
  /\ Awaiting
  /\ \E e \in Events : pc[e] = "failed"
  /\ acks' = Append(acks, CatchStatus)
  /\ hpc' = "acked"
  /\ UNCHANGED <<handler, faults, genOut,
                 now, ticks, store, lastReg, events, pc, texp, gate,
                 genCalls, replyLog, sent, threw, regs>>

TaskStep(e) ==
  \/ StoreSetReturn(e)
  \/ GateReturn(e)
  \/ FetchReturn(e)
  \/ GenReturn(e)
  \/ ReplyReturn(e)

Next ==
  \/ \E r \in Requests, body \in PipelineBodies : RegisterCall(r, body)
  \/ \E r \in Requests : RegisterSetReturn(r)
  \/ \E d \in Deliveries : Dispatch(d)
  \/ \E e \in 1..MaxBatch : TaskStep(e)
  \/ AckResolved
  \/ AckCaught

Spec == Init /\ [][Next]_vars

\* The same server when every external call eventually returns or throws
\* (each pending task takes its next step) and the event loop eventually
\* runs the handler's continuation once Promise.all has settled.
Fairness ==
  /\ \A e \in 1..MaxBatch : WF_vars(TaskStep(e))
  /\ WF_vars(AckResolved)
  /\ WF_vars(AckCaught)

SpecFair == Init /\ [][Next]_vars /\ Fairness

\* The same server with the clock running: order codes, chat texts and
\* images from two senders, POST /register with three windows, the store
\* as the one service that may throw.
NextClock ==
  \/ Tick
  \/ \E r \in Requests, body \in RegisterBodies : RegisterCall(r, body)
  \/ \E r \in Requests : RegisterSetReturn(r)
  \/ \E d \in ClockDeliveries : Dispatch(d)
  \/ \E e \in 1..MaxBatch : StoreSetReturn(e)
  \/ \E e \in 1..MaxBatch : GateReturn(e)
  \/ \E e \in 1..MaxBatch : FetchReturn(e)
  \/ \E e \in 1..MaxBatch : GenReturn(e)
  \/ \E e \in 1..MaxBatch : ReplyReturn(e)
  \/ AckResolved
  \/ AckCaught

InitClock == InitWith("part_000", {"store"})
SpecClock == InitClock /\ [][NextClock]_vars

\* The classifier at work: one sender, registered or not, sends one text
\* out of ClassifyTexts or an image; no call throws.
NextClassify ==
  \/ \E r \in Requests, body \in ClassifyBodies : RegisterCall(r, body)
  \/ \E r \in Requests : RegisterSetReturn(r)
  \/ \E d \in ClassifyDeliveries : Dispatch(d)
  \/ \E e \in 1..MaxBatch : StoreSetReturn(e)
  \/ \E e \in 1..MaxBatch : GateReturn(e)
  \/ \E e \in 1..MaxBatch : FetchReturn(e)
  \/ \E e \in 1..MaxBatch : GenReturn(e)
  \/ \E e \in 1..MaxBatch : ReplyReturn(e)
  \/ AckResolved

InitClassify == InitWith("part_000", {})
SpecClassify == InitClassify /\ [][NextClassify]_vars

\* The gate-first server.
Init002 == InitWith("part_002", Services)
Spec002 == Init002 /\ [][Next]_vars

\* ================================================================ claims
Messages == {e \in Events : events[e].type = "message"}
FallbackKinds == {"visionFallback", "visionError", "mealFallback", "chatFallback"}

\* what the event's entitlement read found: a record not yet expired
ReadEntitled(e) ==
  /\ gate[e].read
  /\ gate[e].data # NoData
  /\ gate[e].data.expireAt > gate[e].at

\* isActive(u) as it would answer in the current state
ActiveNow(u) == IsActive(RedisGet(store, KeyOf(u), now), now)

\* C1: every acknowledgment the webhook handler sends is the success
\* status 200, whatever the event tasks did (returned or threw).
C1_AckIsAlwaysSuccess ==
  /\ \A i \in 1..Len(acks) : acks[i] = SuccessStatus
  /\ hpc = "acked" => Len(acks) >= 1

C1_Witness_AckAfterThrow ==
  /\ hpc = "acked"
  /\ \E e \in Events : pc[e] = "failed" /\ threw[e] # {}
  /\ acks = <<SuccessStatus>>

\* C2: a generation call is made for an event only if that event's own
\* entitlement read returned a record whose expiry is strictly greater
\* than the time of the read; an event whose read found no unexpired
\* record makes no generation call and is replied to with the
\* gate-rejection text only.
C2_NoGenerationWithoutEntitlement ==
  \A e \in Events :
    /\ genCalls[e] > 0 => ReadEntitled(e)
    /\ (gate[e].read /\ ~ReadEntitled(e)) =>
         /\ genCalls[e] = 0
         /\ replyLog[e] = <<GateText>>
         /\ \A i \in 1..Len(sent[e]) : sent[e][i] = GateText

C2_Witness_ExpiredRecordRejected ==
  \E e \in Events :
    /\ gate[e].read
    /\ gate[e].data # NoData
    /\ gate[e].data.expireAt <= gate[e].at
    /\ pc[e] = "done"
    /\ sent[e] = <<GateText>>

\* C3: a text event whose trimmed content is an order code is registered
\* without the entitlement gate being consulted, and is never answered
\* with the gate-rejection text.
C3_OrderCodeBypassesGate ==
  \A e \in Messages :
    (events[e].mtype = "text" /\ OrderMatch(Trim(events[e].text))) =>
      /\ ~gate[e].read
      /\ \A i \in 1..Len(replyLog[e]) : replyLog[e][i] # GateText

\* C4: an event whose generation call threw ends with exactly one fallback
\* reply (the reply channel itself working), on the text paths as on the
\* vision path.
C4_GenerationFailureGetsFallback ==
  \A e \in Events :
    (pc[e] \in Settled /\ "gen" \in threw[e] /\ "reply" \notin threw[e]) =>
      /\ Len(sent[e]) = 1
      /\ sent[e][1].kind \in FallbackKinds

\* C5: a task suspended in an external call can always take its next step,
\* whatever its siblings did (threw, returned, still waiting) and whether
\* or not the handler has answered; and a task fails only through a throw
\* of one of its own calls.
C5_SiblingsNeverBlocked ==
  \A e \in Events :
    /\ pc[e] \notin Settled => ENABLED TaskStep(e)
    /\ pc[e] = "failed" => threw[e] # {}

C5_Witness_RunsAfterSiblingThrew ==
  \E e, f \in Events :
    /\ pc[e] = "failed"
    /\ hpc = "acked"
    /\ pc[f] = "done"
    /\ threw[f] = {}
    /\ genCalls[f] = 1
    /\ Len(sent[f]) = 1

\* C6: the acknowledgment has been sent only if every event task of the
\* batch has settled.
C6_AckOnlyAfterAllSettled ==
  hpc = "acked" => \A e \in Events : pc[e] \in Settled

\* C7: replyMessage is invoked at most once per event.
C7_ReplyInvokedAtMostOnce ==
  \A e \in Events : Len(replyLog[e]) <= 1

\* C8: a message event (text, image or other) whose task has returned with
\* no external call having thrown was sent exactly one reply.
C8_ExactlyOneReply ==
  \A e \in Messages :
    (pc[e] = "done" /\ threw[e] = {}) => Len(sent[e]) = 1

\* C9: isActive(P) is false while no registration of P has completed, true
\* strictly before the expireAt of P's latest registration, and false from
\* that instant on, whether or not the TTL has removed the record.
C9_ActiveExactlyWithinWindow ==
  \A u \in Principals :
    /\ lastReg[u] = NoData => ~ActiveNow(u)
    /\ (lastReg[u] # NoData /\ now < lastReg[u].expireAt) => ActiveNow(u)
    /\ (lastReg[u] # NoData /\ now >= lastReg[u].expireAt) => ~ActiveNow(u)

C9_Witness_ExpiredBeforeTtl ==
  \E e \in Events :
    /\ gate[e].read
    /\ gate[e].data # NoData
    /\ gate[e].data = lastReg[events[e].userId]
    /\ gate[e].at = gate[e].data.expireAt
    /\ replyLog[e] = <<GateText>>

\* C10: the store holds at most one record per principal, and it is the
\* record of that principal's latest registration, order reference and
\* expiry both.
C10_LatestRegistrationOnly ==
  \A u \in Principals :
    LET recs == {en \in store : en.key = KeyOf(u)}
    IN /\ Cardinality(recs) <= 1
       /\ lastReg[u] = NoData => recs = {}
       /\ lastReg[u] # NoData => recs # {} /\ \A en \in recs : en.value = lastReg[u]

C10_Witness_ShorterReplacesLonger ==
  \E e \in Events :
    /\ events[e].userId = "P"
    /\ pc[e] = "done"
    /\ Len(sent[e]) = 1
    /\ sent[e][1].kind = "confirm"
    /\ lastReg["P"] # NoData
    /\ lastReg["P"].orderNumber = <<"B">>
    /\ lastReg["P"].expireAt < texp[e]

\* the events that go through the entitlement gate: isActive is the first
\* call they await
Gated == {e \in Events : StartPc(handler, events[e]) = "get"}

\* C11: when the store read of a gated event throws, the entitlement check
\* answers "not entitled": the task does not fail, the gate-rejection reply
\* is the one reply called for the event, and no generation call is made.
C11_ReadFailureMeansNotEntitled ==
  \A e \in Gated :
    (~gate[e].read /\ "store" \in threw[e]) =>
      /\ pc[e] # "failed"
      /\ replyLog[e] = <<GateText>>
      /\ genCalls[e] = 0

\* C12: POST /register with a missing userId or orderNumber answers 400
\* and leaves the store as it was; with both present it computes the
\* expiry from the clock and the window (30 days when days is absent), and
\* a successful write answers 200 with that expiry, which is the expireAt
\* of the record the write stored under the principal's key.
C12_RegisterValidatesAndReturnsExpiry ==
  /\ [](\A r \in Requests :
          LET b == regs[r].body
              missing == b.userId = "" \/ b.orderNumber = <<>>
          IN regs[r].pc # "idle" =>
               /\ missing => /\ regs[r].pc = "done"
                             /\ regs[r].status = BadRequestStatus
                             /\ regs[r].answered = 0
               /\ ~missing => regs[r].status # BadRequestStatus
               /\ regs[r].status = SuccessStatus =>
                    regs[r].answered = regs[r].expireAt)
  /\ [][\A r \in Requests :
          /\ (regs[r].pc = "idle" /\ regs'[r].status = BadRequestStatus) =>
               store' = store
          /\ (regs[r].pc = "idle" /\ regs'[r].pc = "set") =>
               regs'[r].expireAt = now + regs'[r].body.days * Day
          /\ (regs[r].pc = "set" /\ regs'[r].status = SuccessStatus) =>
               \E en \in store' :
                 /\ en.key = KeyOf(regs[r].body.userId)
                 /\ en.value.orderNumber = regs[r].body.orderNumber
                 /\ en.value.expireAt = regs'[r].answered
                 /\ \A o \in store' : o.key = en.key => o = en]_vars

C12_Witness_AnsweredExpiryIsStored ==
  \E r \in Requests :
    /\ regs[r].pc = "done"
    /\ regs[r].status = SuccessStatus
    /\ regs[r].answered = now + DefaultDays * Day
    /\ \E en \in store : en.key = KeyOf("P") /\ en.value.expireAt = regs[r].answered

\* the branch of the callback the event's task is in, by the call it awaits
HandledAs(e) ==
  CASE pc[e] \in {"set", "replyOrder"} -> "order-code"
    [] pc[e] \in {"fetch", "genVision", "replyVision", "replyCatch"} -> "vision-request"
    [] pc[e] \in {"genMeal", "replyMeal"} -> "meal-report"
    [] pc[e] \in {"genChat", "replyChat"} -> "general-chat"
    [] OTHER -> "none"

\* C13: every message event the handler takes into a branch is taken into
\* exactly the branch of its intent: an image into the vision branch; a
\* text into the order-code branch exactly when its trimmed content is 9 or
\* 10 decimal digits and nothing else, else into the meal-report branch
\* when it contains a meal keyword, else into general chat.  An order code
\* is taken into its branch at once; every other text or image is once the
\* entitlement read has let it through.
C13_ClassificationTotalAndExact ==
  \A e \in Messages :
    LET ev == events[e]
        t == Trim(ev.text)
        order == /\ ev.mtype = "text"
                 /\ Len(t) \in {9, 10}
                 /\ \A i \in 1..Len(t) : t[i] \in DigitChars
        intent == CASE ev.mtype = "image" -> "vision-request"
                    [] order -> "order-code"
                    [] ev.mtype = "text" /\ (\E i \in 1..Len(t) : t[i] = "M") ->
                         "meal-report"
                    [] ev.mtype = "text" -> "general-chat"
                    [] OTHER -> "none"
    IN /\ HandledAs(e) # "none" => HandledAs(e) = intent
       /\ intent = "order-code" =>
            ~gate[e].read /\ (pc[e] \in Settled \/ HandledAs(e) = "order-code")
       /\ (ReadEntitled(e) /\ pc[e] \notin Settled) => HandledAs(e) = intent

\* "12345" from an entitled sender is in the general-chat branch
C13_Witness_FiveDigitsIsChat ==
  \E e \in Messages :
    /\ events[e].text = Digits(5)
    /\ ReadEntitled(e)
    /\ pc[e] = "replyChat"

\* C14: every record in the store is removed by its TTL no later than the
\* expireAt it carries, whichever path wrote it and however long the write
\* took to reach the store.
C14_TtlNotAfterExpiry ==
  \A en \in store : en.ttlAt <= en.value.expireAt

\* C15: an event whose media fetch threw (the reply channel working) ends
\* returned, not failed, with exactly one reply sent, the vision apology,
\* and without a generation call.
C15_FetchFailureRecovered ==
  \A e \in Events :
    ("fetch" \in threw[e] /\ "reply" \notin threw[e]) =>
      /\ pc[e] # "failed"
      /\ genCalls[e] = 0
      /\ replyLog[e] = <<VisionError>>
      /\ pc[e] = "done" => sent[e] = <<VisionError>>

\* the fixed fallback text of the branch the event was taken into
FallbackOfEvent(ev) ==
  CASE ev.mtype = "image" -> VisionFallback
    [] IsMeal(Trim(ev.text)) -> MealFallback
    [] OTHER -> ChatFallback

\* C16: once the generation call of an event has returned, the one reply
\* called for it carries a text that is not empty; and when the call
\* returned no completion, or a first completion that is empty or white
\* space only, that reply is the fixed fallback text of the event's intent
\* (vision, meal report or chat), and it is what the event is sent.
C16_EmptyCompletionGetsIntentFallback ==
  \A e \in Events :
    genOut[e] # NoResult =>
      LET out == genOut[e]
          empty == out = NoChoice \/ \A i \in 1..Len(out) : out[i] \in SpaceChars
      IN /\ Len(replyLog[e]) >= 1
         /\ replyLog[e][1].kind = "generated" => replyLog[e][1].body # <<>>
         /\ empty => replyLog[e][1] = FallbackOfEvent(events[e])
         /\ ~empty => replyLog[e][1].kind = "generated"
         /\ (pc[e] = "done" /\ threw[e] = {}) => sent[e] = <<replyLog[e][1]>>

C16_Witness_BlankCompletionOnMeal ==
  \E e \in Events :
    /\ genOut[e] = <<" ">>
    /\ IsMeal(Trim(events[e].text))
    /\ pc[e] = "done"
    /\ sent[e] = <<MealFallback>>

\* C17: an event whose type is not "message" has returned as soon as the
\* delivery is dispatched and stays so: no store read, no store write, no
\* media fetch, no generation call, no reply, no throw, and no step of its
\* own is ever enabled, so neither the store nor a sibling task is touched
\* by it; a delivery of such events alone can be acknowledged at once.
C17_NonMessageEventsAreIgnored ==
  /\ \A e \in Events \ Messages :
       /\ pc[e] = "done"
       /\ ~gate[e].read
       /\ texp[e] = 0
       /\ genCalls[e] = 0
       /\ genOut[e] = NoResult
       /\ replyLog[e] = <<>>
       /\ sent[e] = <<>>
       /\ threw[e] = {}
       /\ ~ENABLED TaskStep(e)
  /\ (hpc = "await" /\ Messages = {}) => ENABLED AckResolved

C17_Witness_FollowBesideServedMessage ==
  \E e, f \in Events :
    /\ events[e].type = "follow"
    /\ events[f].type = "message"
    /\ genCalls[f] = 1
    /\ pc[f] = "done"
    /\ Len(sent[f]) = 1
    /\ acks = <<SuccessStatus>>

\* the replies that carry the outcome of a generation call: its text, or
\* the fallback for an empty completion
GenerationReplies == {"generated", "visionFallback", "mealFallback", "chatFallback"}

\* C18: in a gated event the steps come in order.  While the entitlement
\* read is pending, nothing else of the event has started; a generation
\* call has been made only if the read returned a record not yet expired,
\* and at most one is made; while the generation call is pending no reply
\* has been called; a reply has been called, after a generation call, only
\* once that call returned or threw; and a reply carrying the outcome of
\* the generation is preceded by the read and the returned generation.
C18_GateThenGenerateThenReply ==
  \A e \in Gated :
    /\ pc[e] = "get" =>
         genCalls[e] = 0 /\ genOut[e] = NoResult /\ replyLog[e] = <<>>
    /\ genCalls[e] > 0 => ReadEntitled(e) /\ genCalls[e] = 1
    /\ pc[e] \in GenPcs =>
         genCalls[e] = 1 /\ genOut[e] = NoResult /\ replyLog[e] = <<>>
    /\ (genCalls[e] > 0 /\ replyLog[e] # <<>>) =>
         genOut[e] # NoResult \/ "gen" \in threw[e]
    /\ \A i \in 1..Len(replyLog[e]) :
         replyLog[e][i].kind \in GenerationReplies =>
           ReadEntitled(e) /\ genOut[e] # NoResult
    /\ Len(sent[e]) <= Len(replyLog[e])

C18_Witness_GeneratedReplyAfterGate ==
  \E e \in Gated :
    /\ ReadEntitled(e)
    /\ genCalls[e] = 1
    /\ genOut[e] = <<"o", "k", " ">>
    /\ pc[e] = "done"
    /\ Len(sent[e]) = 1
    /\ sent[e][1].kind = "generated"

\* the events taken into the order-code branch
OrderEvents ==
  {e \in Messages :
     events[e].mtype = "text" /\ OrderMatch(Trim(events[e].text))}

\* C19: an order-code event never reads the entitlement and never calls
\* the generation API; its task enters the store write once (when the
\* delivery is dispatched); the confirmation reply is called by the very
\* step in which the write returns, not before, and once; that write
\* stores, under the sender's key, the trimmed code and the expiry computed
\* by the task, and the reply carries that code and the date of that
\* expiry; a task that returned without a throw was sent this one reply.
C19_OrderCodeWritesThenConfirms ==
  /\ [](\A e \in OrderEvents :
          LET confirm == Msg("confirm", <<>>, Trim(events[e].text), texp[e] \div Day)
          IN /\ ~gate[e].read
             /\ genCalls[e] = 0
             /\ genOut[e] = NoResult
             /\ pc[e] \in {"set", "replyOrder", "done", "failed"}
             /\ pc[e] = "set" => replyLog[e] = <<>>
             /\ replyLog[e] \in {<<>>, <<confirm>>}
             /\ pc[e] = "replyOrder" => replyLog[e] = <<confirm>> /\ sent[e] = <<>>
             /\ (pc[e] = "done" /\ threw[e] = {}) => sent[e] = <<confirm>>
             /\ sent[e] \in {<<>>, <<confirm>>})
  /\ [][\A e \in OrderEvents :
          /\ pc'[e] = "set" => pc[e] = "set"
          /\ (pc[e] = "set" /\ pc'[e] = "replyOrder") =>
               \E en \in store' :
                 /\ en.key = KeyOf(events[e].userId)
                 /\ en.value = [orderNumber |-> Trim(events[e].text),
                                expireAt |-> texp[e]]
                 /\ \A o \in store' : o.key = en.key => o = en
          /\ (pc[e] = "set" /\ pc'[e] = "failed") => store' = store
          /\ texp'[e] = texp[e]]_vars

\* the reply is sent after the clock moved between the task computing the
\* expiry and the store applying the write
C19_Witness_ConfirmedAfterSlowWrite ==
  \E e \in OrderEvents :
    /\ pc[e] = "done"
    /\ sent[e] = <<Msg("confirm", <<>>, OrderText, texp[e] \div Day)>>
    /\ \E en \in store :
         /\ en.key = KeyOf(events[e].userId)
         /\ en.value.expireAt = texp[e]
         /\ en.ttlAt > texp[e]

\* the entries the store holds for principal u
RecordsOf(st, u) == {en \in st : en.key = <<"sub", u>>}

\* the values whose write for principal u has returned: by an order-code
\* event of u, or by a POST /register for u
WrittenFor(u) ==
  {[orderNumber |-> Trim(events[e].text), expireAt |-> texp[e]] :
     e \in {f \in OrderEvents : /\ events[f].userId = u
                                /\ pc[f] # "set"
                                /\ "store" \notin threw[f]}}
    \cup {[orderNumber |-> regs[r].body.orderNumber, expireAt |-> regs[r].expireAt] :
            r \in {q \in Requests : /\ regs[q].body.userId = u
                                    /\ regs[q].pc = "done"
                                    /\ regs[q].status = SuccessStatus}}

\* C20: in every interleaving of the event tasks and the registrations,
\* each store entry is kept under the key of one principal and holds, in
\* full, the value written by one completed registration of that principal
\* (the latest one); a step changes the entries of a principal only when
\* it is the write of one of that principal's own registrations, and then
\* the principal's record is exactly that writer's code, expiry and TTL;
\* and an entitlement read returns the record under the reader's own key.
C20_PerPrincipalAndLastWriteWins ==
  /\ [](/\ \A en \in store : \E u \in Principals : en.key = <<"sub", u>>
        /\ \A u \in Principals :
             /\ Cardinality(RecordsOf(store, u)) <= 1
             /\ \A en \in RecordsOf(store, u) :
                  en.value \in WrittenFor(u) /\ en.value = lastReg[u])
  /\ [][/\ \A u \in Principals :
             RecordsOf(store', u) # RecordsOf(store, u) =>
               \/ \E e \in Events :
                    /\ events[e].userId = u
                    /\ pc[e] = "set" /\ pc'[e] = "replyOrder"
                    /\ RecordsOf(store', u) =
                         {[key |-> <<"sub", u>>,
                           value |-> [orderNumber |-> Trim(events[e].text),
                                      expireAt |-> texp[e]],
                           ttlAt |-> now + OrderWindowDays * Day]}
               \/ \E r \in Requests :
                    /\ regs[r].body.userId = u
                    /\ regs[r].pc = "set" /\ regs'[r].status = SuccessStatus
                    /\ RecordsOf(store', u) =
                         {[key |-> <<"sub", u>>,
                           value |-> [orderNumber |-> regs[r].body.orderNumber,
                                      expireAt |-> regs[r].expireAt],
                           ttlAt |-> now + regs[r].body.days * Day]}
        /\ \A e \in Events :
             (~gate[e].read /\ gate'[e].read) =>
               LET own == {en \in RecordsOf(store, events[e].userId) : now < en.ttlAt}
               IN gate'[e].data \in
                    (IF own = {} THEN {NoData} ELSE {en.value : en \in own})]_vars

\* an order-code write of P has returned while a POST /register for P is
\* between its clock read and its write, and another principal's record
\* is in the store: P's record is the order-code write, whole
C20_Witness_ConcurrentRegistrations ==
  \E e \in OrderEvents, r \in Requests :
    /\ events[e].userId = "P"
    /\ regs[r].pc = "set"
    /\ regs[r].body.userId = "P"
    /\ regs[r].expireAt # texp[e]
    /\ pc[e] = "replyOrder"
    /\ RecordsOf(store, "P") # {}
    /\ \A en \in RecordsOf(store, "P") :
         en.value = [orderNumber |-> OrderText, expireAt |-> texp[e]]
    /\ RecordsOf(store, "Q") # {}

\* C21: the store changes only in the step in which the write of an
\* order-code event or of a POST /register returns; every other step, of a
\* gated event (its read, fetch, generation, replies, throws), of the
\* dispatch or of the acknowledgment, leaves the store as it was; and a
\* gated event never stands at a store write.
C21_OnlyRegistrationsWrite ==
  /\ [](\A e \in Gated : pc[e] # "set" /\ texp[e] = 0)
  /\ [][store' # store =>
          \/ \E e \in OrderEvents : pc[e] = "set" /\ pc'[e] = "replyOrder"
          \/ \E r \in Requests :
               regs[r].pc = "set" /\ regs'[r].status = SuccessStatus]_vars

\* a served, a rejected or a failed gated event beside a record that is
\* still the one a registration wrote
C21_Witness_ServedEventLeftRecord ==
  \E e \in Gated :
    /\ pc[e] = "done"
    /\ ReadEntitled(e)
    /\ genCalls[e] = 1
    /\ Len(sent[e]) = 1
    /\ store # {}
    /\ \A en \in store : en.value = gate[e].data

\* C22: the response of a delivery is ended at most once, and once it is,
\* for good: no acknowledgment before the delivery, one status recorded
\* exactly when the handler has answered, neither the success path nor the
\* catch block able to run after that, whatever the tasks still do (return
\* or throw, before or after the answer); each step adds at most one
\* acknowledgment and none is taken back; and when every task has settled
\* and no answer was given yet, one of the two paths can give it.
C22_ExactlyOneAck ==
  /\ [](/\ Len(acks) <= 1
        /\ hpc = "acked" <=> Len(acks) = 1
        /\ hpc = "acked" => ~ENABLED AckResolved /\ ~ENABLED AckCaught
        /\ ~(ENABLED AckResolved /\ ENABLED AckCaught)
        /\ (hpc = "await" /\ \A e \in Events : pc[e] \in Settled) =>
             ENABLED AckResolved \/ ENABLED AckCaught)
  /\ [][acks' # acks => /\ acks = <<>>
                        /\ Len(acks') = 1
                        /\ hpc = "await"]_vars

\* one acknowledgment although two tasks of the delivery threw
C22_Witness_OneAckForTwoThrows ==
  \E e, f \in Events :
    /\ e # f
    /\ pc[e] = "failed"
    /\ pc[f] = "failed"
    /\ hpc = "acked"
    /\ Len(acks) = 1

\* C23: when every external call eventually returns or throws, a delivery
\* the handler has taken up is eventually acknowledged and every one of its
\* event tasks eventually settles (returns or fails), and it stays so.
C23_EveryDeliveryIsAcknowledged ==
  (hpc = "await") ~> [](/\ hpc = "acked"
                        /\ Len(acks) = 1
                        /\ \A e \in Events : pc[e] \in Settled)

\* a full delivery acknowledged and settled, one task failed, one served
C23_Witness_AckedAndAllSettled ==
  /\ hpc = "acked"
  /\ Cardinality(Events) = MaxBatch
  /\ \A e \in Events : pc[e] \in Settled
  /\ \E e \in Events : pc[e] = "failed" /\ "gen" \in threw[e]
  /\ \E f \in Events : pc[f] = "done" /\ genOut[f] # NoResult

\* C24: the expiry an order-code event registers is the time the event is
\* taken up plus 30 days, whatever the store holds; and when its write
\* returns, the sender's record is that code with that expiry and a TTL of
\* 30 days, also when the record it replaces expired later.
C24_OrderCodeAlwaysThirtyDays ==
  [][/\ (hpc = "idle" /\ hpc' = "await") =>
          \A e \in DOMAIN events' :
            LET ev == events'[e]
                t == Trim(ev.text)
            IN (/\ ev.type = "message"
                /\ ev.mtype = "text"
                /\ Len(t) \in {9, 10}
                /\ \A i \in 1..Len(t) : t[i] \in DigitChars) =>
                 texp'[e] = now + 30 * Day
     /\ \A e \in OrderEvents :
          (pc[e] = "set" /\ pc'[e] = "replyOrder") =>
            RecordsOf(store', events[e].userId) =
              {[key |-> <<"sub", events[e].userId>>,
                value |-> [orderNumber |-> Trim(events[e].text),
                           expireAt |-> texp[e]],
                ttlAt |-> now + 30 * Day]}]_vars

\* a 60-day registration through POST /register, cut short by an
\* order-code event of the same principal
C24_Witness_ChatRegistrationShortens ==
  \E e \in OrderEvents, r \in Requests :
    /\ events[e].userId = "P"
    /\ regs[r].pc = "done"
    /\ regs[r].status = SuccessStatus
    /\ regs[r].body.userId = "P"
    /\ regs[r].body.days = 60
    /\ pc[e] = "done"
    /\ sent[e] # <<>>
    /\ regs[r].expireAt > texp[e]
    /\ \A en \in RecordsOf(store, "P") : en.value.expireAt = texp[e]
    /\ RecordsOf(store, "P") # {}

====
